---- MODULE Spec2Model ----
(***************************************************************************)
(* Model of the PDF-to-vector-index pipeline notebook                      *)
(* (M1_Sample_Code/3_load_pdf_to_vector_index.py).                         *)
(*                                                                         *)
(* The notebook is a straight-line script.  Each external call it makes    *)
(* (table write, ALTER, index sync/create, ...) is one step of the model;  *)
(* pc names the next step.  The managed services the notebook talks to    *)
(* (the volume, the three Delta tables, the vector index) are the          *)
(* environment part of the state.                                          *)
(***************************************************************************)
EXTENDS Bags, FiniteSets, Integers, Sequences, TLC

VARIABLES
    files,        \* files below the source volume (environment)
    bronze,       \* bag of rows of bronze_raw_files_table_name
    silver,       \* bag of rows of silver_parsed_files_table_name
    gold,         \* bag of rows of gold_chunks_table_name
    goldCDF,      \* delta.enableChangeDataFeed of the gold table
    index,        \* the vector index: NULL, or <<its specification>>
    pc,           \* position of the notebook run
    runNo,        \* number of runs started so far
    edits,        \* number of edits of the volume so far
    faults,       \* number of external calls that have raised so far
    config,       \* widget values of the current run
    start,        \* tables, index and files as they were when the run started
    prev,         \* files, configuration and outcome of the run before
    log,          \* externally visible effects of the current run, in order
    warned,       \* advisory messages shown to the operator in this run
    error,        \* the exception that ended the run, kind "none" if none
    bronze_df,    \* notebook variable bronze_df (rows)
    df_parsed,    \* notebook variable df_parsed (rows)
    num_errors,   \* notebook variable num_errors, NULL before it is set
    udf_in,       \* argument of a stand-alone parse_pdf call
    udf_out,      \* its result, NULL before the call
    split_in,     \* arguments of a stand-alone split_char_recursive call
    split_out,    \* its result, NULL before the call
    ns,           \* variables of the driver notebook's Python process
    registry,     \* number of versions of the chain registered in Unity Catalog
    deployments   \* versions of the chain that have been deployed

vars == <<files, bronze, silver, gold, goldCDF, index, pc, runNo, edits, faults, config,
          start, prev, log, warned, error, bronze_df, df_parsed, num_errors,
          udf_in, udf_out, split_in, split_out, ns, registry, deployments>>

envVars == <<files, bronze, silver, gold, goldCDF, index>>
udfVars == <<udf_in, udf_out>>
splitVars == <<split_in, split_out>>
drvVars == <<ns, registry, deployments>>

-----------------------------------------------------------------------------
(* Bounds of the model *)

MaxRuns  == 2      \* runs of the notebook in one behaviour
MaxEdits == 1      \* edits of the volume between runs
MaxFaults == 1     \* external calls that raise
MaxPages == 3      \* pages of a generated parse_pdf input

-----------------------------------------------------------------------------
(* Nullable values: SQL NULL / Python None is the empty tuple *)

NULL == <<>>
Some(v) == <<v>>
IsNull(x) == Len(x) = 0
Val(x) == x[1]

NoError == [kind |-> "none", msg |-> ""]

\* The driver notebook's variables right after restartPython
FreshProcess == [logged_chain_info |-> NULL, uc_registered_chain_info |-> NULL]

\* No split_char_recursive call is under way
NoSplitCall == [content |-> <<>>, chunk_size_tokens |-> 0, chunk_overlap_tokens |-> 0]

-----------------------------------------------------------------------------
(* Configuration cells *)

vector_search_endpoint_name == "one-env-shared-endpoint-5"
uc_catalog_name == "jendarra_cat"
uc_schema_name == "pragster"

BGE_CONTEXT_WINDOW_LENGTH_TOKENS == 512
CHUNK_SIZE_TOKENS == 425
CHUNK_OVERLAP_TOKENS == 75
DATABRICKS_FMAPI_BGE_ENDPOINT == "databricks-bge-large-en"
FMAPI_EMBEDDINGS_TASK == "llm/v1/embeddings"

LOADER_DEFAULT_DOC_URI_COL_NAME == "path"
DOC_URI_COL_NAME == "doc_uri"
CHUNK_COLUMN_NAME == "chunked_text"
CHUNK_ID_COLUMN_NAME == "chunk_id"

\* f"/Volumes/{uc_catalog_name}/{uc_schema_name}/{widget value}"
source_uc_volume(volume) == "/Volumes/" \o uc_catalog_name \o "/" \o uc_schema_name \o "/" \o volume

bronze_raw_files_table_name(volume) ==
    uc_catalog_name \o "." \o uc_schema_name \o ".bronze_" \o volume \o "_raw"
silver_parsed_files_table_name(volume) ==
    uc_catalog_name \o "." \o uc_schema_name \o ".silver_" \o volume \o "_parsed"
gold_chunks_table_name(volume) ==
    uc_catalog_name \o "." \o uc_schema_name \o ".gold_" \o volume \o "_chunked"
gold_chunks_index_name(volume) ==
    uc_catalog_name \o "." \o uc_schema_name \o ".gold_" \o volume \o "_chunked_index"

\* Values the operator can leave in the widgets before pressing Run All.
WidgetVolumes == {"docs"}

\* Serving endpoints the operator may name besides the default: BGE deployed
\* with provisioned throughput, a chat model, and a name nothing answers to.
ProvisionedBgeEndpoint == "my-bge-provisioned"
ChatEndpoint == "my-chat"
MissingEndpoint == "no-such-endpoint"
WidgetEmbeddingEndpoints == {DATABRICKS_FMAPI_BGE_ENDPOINT}
WidgetChunking == {<<CHUNK_SIZE_TOKENS, CHUNK_OVERLAP_TOKENS>>, <<5, 1>>}

Configs ==
    { [volume_raw_name |-> v, embedding_endpoint_name |-> e,
       chunk_size_tokens |-> c[1], chunk_overlap_tokens |-> c[2]] :
         v \in WidgetVolumes, e \in WidgetEmbeddingEndpoints, c \in WidgetChunking }

\* Every value the widgets take: the volume dropdown offers "" (its default)
\* and the volumes of the schema, the other three are free text.
AnyConfigs ==
    { [volume_raw_name |-> v, embedding_endpoint_name |-> e,
       chunk_size_tokens |-> c[1], chunk_overlap_tokens |-> c[2]] :
         v \in {""} \cup WidgetVolumes,
         e \in {DATABRICKS_FMAPI_BGE_ENDPOINT, ProvisionedBgeEndpoint, ChatEndpoint,
                MissingEndpoint},
         c \in {<<CHUNK_SIZE_TOKENS, CHUNK_OVERLAP_TOKENS>>, <<500, 75>>, <<5, 1>>} }

\* Names bound in the notebook's global namespace by the import cell.
NotebookGlobals ==
    {"io", "WorkspaceClient", "NotFound", "ResourceDoesNotExist", "EndpointType",
     "DeltaSyncVectorIndexSpecRequest", "VectorIndexType", "EmbeddingSourceColumn",
     "PipelineType", "EndpointStatusState", "func", "MapType", "StringType",
     "PdfReader", "RecursiveCharacterTextSplitter", "CharacterTextSplitter",
     "Column", "timedelta", "List", "warnings", "w"}

-----------------------------------------------------------------------------
(* The source volume.  The bytes of a file are described by what PdfReader *)
(* makes of them: the error its constructor raises (NULL if none) and, for *)
(* each page, the text extract_text returns or the error it raises.        *)
(* A text is a sequence of symbols: words, and SEP for a blank line.       *)

SEP == "\n\n"

PageOk(text) == [error |-> NULL, text |-> text]
PageBad(msg) == [error |-> Some(msg), text |-> <<>>]
Pdf(pages)   == [readerError |-> NULL, pages |-> pages]
NotPdf(msg)  == [readerError |-> Some(msg), pages |-> <<>>]

File(dir, stem, ext, mtime, content) ==
    [dir |-> dir, name |-> <<stem, ext>>, modificationTime |-> mtime,
     length |-> 2 + Len(content.pages), content |-> content]

FileA == File(<<>>, "a", "pdf", 1, Pdf(<<PageOk(<<"alpha", "beta">>), PageOk(<<"gamma">>)>>))
FileB == File(<<"sub">>, "b", "pdf", 2, Pdf(<<PageOk(<<"gamma">>)>>))
FileC == File(<<"sub">>, "c", "pdf", 3, NotPdf("EOF marker not found"))
FileN == File(<<>>, "notes", "txt", 5, NotPdf("EOF marker not found"))
FileOld == File(<<>>, "old", "pdf", 0, Pdf(<<PageOk(<<"delta">>)>>))

FileUniverse == {FileA, FileB, FileC, FileN}

\* pathGlobFilter "*.pdf": the leaf name ends in ".pdf" (case-sensitive).
GlobMatches(f) == f.name[2] = "pdf"

\* spark.read.format("binaryFile").option("recursiveFileLookup", "true")
\*      .option("pathGlobFilter", "*.pdf").load(source_uc_volume)
LoadBinaryFiles(fs) == {f \in fs : GlobMatches(f)}

\* selectExpr("* except(path)", "path as doc_uri")
BronzeRow(volume, f) ==
    [doc_uri |-> <<source_uc_volume(volume), f.dir, f.name>>,
     modificationTime |-> f.modificationTime, length |-> f.length,
     content |-> f.content]

\* The files below source_uc_volume.  The files of the model live in the
\* volume "docs"; with an empty volume name the path is the schema's
\* directory and the volume is one directory level of it.
FilesBelow(volume, fs) ==
    IF volume = "" THEN {[f EXCEPT !.dir = <<"docs">> \o f.dir] : f \in fs} ELSE fs

BronzeRows(volume, fs) ==
    SetToBag({BronzeRow(volume, f) : f \in LoadBinaryFiles(FilesBelow(volume, fs))})

-----------------------------------------------------------------------------
(* parse_pdf *)

RECURSIVE ExtractAllBare(_)
\* The loop without the "\n\n" it puts after each page
ExtractAllBare(pages) ==
    IF pages = <<>> THEN [error |-> NULL, text |-> <<>>]
    ELSE IF ~IsNull(Head(pages).error) THEN [error |-> Head(pages).error, text |-> <<>>]
    ELSE LET rest == ExtractAllBare(Tail(pages))
         IN  IF ~IsNull(rest.error) THEN rest
             ELSE [error |-> NULL, text |-> Head(pages).text \o rest.text]

RECURSIVE ExtractAll(_)
\* The loop over reader.pages: the text so far, or the first error raised.
ExtractAll(pages) ==
    IF pages = <<>> THEN [error |-> NULL, text |-> <<>>]
    ELSE IF ~IsNull(Head(pages).error) THEN [error |-> Head(pages).error, text |-> <<>>]
    ELSE LET rest == ExtractAll(Tail(pages))
         IN  IF ~IsNull(rest.error) THEN rest
             ELSE [error |-> NULL, text |-> Head(pages).text \o <<SEP>> \o rest.text]

\* The except branch keeping the page count it had reached
ParseErrorKeepingPages(msg) ==
    [number_pages |-> Some(0), text |-> NULL, status |-> "ERROR: " \o msg]

ParseError(msg) == [number_pages |-> NULL, text |-> NULL, status |-> "ERROR: " \o msg]

parse_pdf(pdf_raw_bytes) ==
    IF ~IsNull(pdf_raw_bytes.readerError) THEN ParseError(Val(pdf_raw_bytes.readerError))
    ELSE LET out == ExtractAll(pdf_raw_bytes.pages)
         IN  IF ~IsNull(out.error) THEN ParseError(Val(out.error))
             ELSE [number_pages |-> Some(Len(pdf_raw_bytes.pages)),
                   text |-> Some(out.text),
                   status |-> "SUCCESS"]

\* bronze_df.withColumn("parsed_output", parse_pdf("content")).drop("content")
ParsedRow(r) ==
    [doc_uri |-> r.doc_uri, modificationTime |-> r.modificationTime,
     length |-> r.length, parsed_output |-> parse_pdf(r.content)]

ParsedRows(rows) == BagOfAll(ParsedRow, rows)

IsSuccess(r) == r.parsed_output.status = "SUCCESS"
IsFailure(r) == r.parsed_output.status # "SUCCESS"

\* filter(func.col("parsed_output.status") == "SUCCESS")
Successes(B) == [x \in {e \in DOMAIN B : IsSuccess(e)} |-> B[x]]

\* filter(func.col("parsed_output.status") != "SUCCESS")
Failures(B) == [x \in {e \in DOMAIN B : IsFailure(e)} |-> B[x]]

-----------------------------------------------------------------------------
(* split_char_recursive: CharacterTextSplitter.from_huggingface_tokenizer  *)
(* (langchain 0.1.13).  The length of a text is the number of ids          *)
(* tokenizer.encode returns for it: one per word, plus [CLS] and [SEP].    *)

SpecialTokens == 2

RECURSIVE CountWords(_)
CountWords(text) ==
    IF text = <<>> THEN 0
    ELSE (IF Head(text) = SEP THEN 0 ELSE 1) + CountWords(Tail(text))

\* len(tokenizer.encode(text))
TokenLen(text) == CountWords(text) + SpecialTokens

RECURSIVE SplitOn(_, _, _)
\* re.split(separator, text) with the empty pieces dropped
SplitOn(text, piece, done) ==
    IF text = <<>> THEN (IF piece = <<>> THEN done ELSE Append(done, piece))
    ELSE IF Head(text) = SEP
         THEN SplitOn(Tail(text), <<>>, IF piece = <<>> THEN done ELSE Append(done, piece))
         ELSE SplitOn(Tail(text), Append(piece, Head(text)), done)

RECURSIVE JoinWith(_, _)
\* separator.join(docs)
JoinWith(docs, separator) ==
    IF docs = <<>> THEN <<>>
    ELSE IF Len(docs) = 1 THEN Head(docs)
    ELSE Head(docs) \o separator \o JoinWith(Tail(docs), separator)

\* TextSplitter._join_docs: None for an empty text
JoinDocs(docs, separator) ==
    LET text == JoinWith(docs, separator)
    IN  IF text = <<>> THEN NULL ELSE Some(text)

RECURSIVE DropWhileOver(_, _, _, _, _, _)
\* the while loop of TextSplitter._merge_splits
DropWhileOver(current_doc, total, len, separator_len, chunk_size, chunk_overlap) ==
    IF \/ total > chunk_overlap
       \/ /\ total + len + (IF Len(current_doc) > 0 THEN separator_len ELSE 0) > chunk_size
          /\ total > 0
    THEN DropWhileOver(Tail(current_doc),
                       total - (TokenLen(Head(current_doc))
                                + (IF Len(current_doc) > 1 THEN separator_len ELSE 0)),
                       len, separator_len, chunk_size, chunk_overlap)
    ELSE [current_doc |-> current_doc, total |-> total]

RECURSIVE MergeLoop(_, _, _, _, _, _, _)
\* the for loop of TextSplitter._merge_splits and the final _join_docs
MergeLoop(splits, docs, current_doc, total, separator, chunk_size, chunk_overlap) ==
    LET separator_len == TokenLen(separator) IN
    IF splits = <<>>
    THEN LET doc == JoinDocs(current_doc, separator)
         IN  IF IsNull(doc) THEN docs ELSE Append(docs, Val(doc))
    ELSE LET d == Head(splits)
             len == TokenLen(d)
             over == total + len + (IF Len(current_doc) > 0 THEN separator_len ELSE 0)
                       > chunk_size
             flush == over /\ Len(current_doc) > 0
             doc == JoinDocs(current_doc, separator)
             docs1 == IF flush /\ ~IsNull(doc) THEN Append(docs, Val(doc)) ELSE docs
             kept == IF flush
                     THEN DropWhileOver(current_doc, total, len, separator_len,
                                        chunk_size, chunk_overlap)
                     ELSE [current_doc |-> current_doc, total |-> total]
             current1 == Append(kept.current_doc, d)
             total1 == kept.total + len + (IF Len(current1) > 1 THEN separator_len ELSE 0)
         IN  MergeLoop(Tail(splits), docs1, current1, total1, separator,
                       chunk_size, chunk_overlap)

\* CharacterTextSplitter.split_text with the default separator "\n\n"
split_char_recursive(content, chunk_size_tokens, chunk_overlap_tokens) ==
    MergeLoop(SplitOn(content, <<>>, <<>>), <<>>, <<>>, 0, <<SEP>>,
              chunk_size_tokens, chunk_overlap_tokens)

\* func.md5: a digest of the text alone.  Symbols are numbered, the digest
\* is a polynomial in the numbers, reduced to the width of the digest.
Md5Space == 2 ^ 16

SymbolCode(sym) ==
    CASE sym = SEP -> 1 [] sym = "alpha" -> 2 [] sym = "beta" -> 3
      [] sym = "gamma" -> 4 [] sym = "delta" -> 5 [] OTHER -> 6

RECURSIVE Digest(_)
Digest(text) ==
    IF text = <<>> THEN 7
    ELSE (31 * Digest(Tail(text)) + SymbolCode(Head(text))) % Md5Space

md5(text) == Digest(text)

RECURSIVE SeqToBag(_)
SeqToBag(seq) ==
    IF seq = <<>> THEN EmptyBag ELSE SetToBag({Head(seq)}) (+) SeqToBag(Tail(seq))

\* The chunk rows with an identifier made of the chunk and its document
ChunkRowsIdPerDocument(r, chunk_size_tokens, chunk_overlap_tokens) ==
    LET chunks == split_char_recursive(Val(r.parsed_output.text),
                                       chunk_size_tokens, chunk_overlap_tokens)
    IN  SeqToBag([i \in 1..Len(chunks) |->
                    [doc_uri |-> r.doc_uri, modificationTime |-> r.modificationTime,
                     length |-> r.length, chunked_text |-> chunks[i],
                     chunk_id |-> (md5(chunks[i]) + r.modificationTime) % Md5Space]])

\* One successful silver row exploded into its chunk rows, parsed_output
\* dropped and chunk_id added.
ChunkRows(r, chunk_size_tokens, chunk_overlap_tokens) ==
    LET chunks == split_char_recursive(Val(r.parsed_output.text),
                                       chunk_size_tokens, chunk_overlap_tokens)
    IN  SeqToBag([i \in 1..Len(chunks) |->
                    [doc_uri |-> r.doc_uri, modificationTime |-> r.modificationTime,
                     length |-> r.length, chunked_text |-> chunks[i],
                     chunk_id |-> md5(chunks[i])]])

RECURSIVE ExplodeSet(_, _, _, _)
ExplodeSet(B, todo, chunk_size_tokens, chunk_overlap_tokens) ==
    IF todo = {} THEN EmptyBag
    ELSE LET r == CHOOSE x \in todo : TRUE
             one == ChunkRows(r, chunk_size_tokens, chunk_overlap_tokens)
             copies == [x \in DOMAIN one |-> one[x] * B[r]]
         IN  copies (+) ExplodeSet(B, todo \ {r}, chunk_size_tokens, chunk_overlap_tokens)

\* df_parsed.select("*", explode(split_char_recursive(text))).drop("parsed_output")
\*          .select("*", md5(chunked_text))
ChunkedRows(rows, chunk_size_tokens, chunk_overlap_tokens) ==
    ExplodeSet(rows, BagToSet(rows), chunk_size_tokens, chunk_overlap_tokens)

-----------------------------------------------------------------------------
(* The environment the notebook runs against *)

\* w.serving_endpoints.get(name).task, NULL when the endpoint does not exist
ServingEndpointTask(name) ==
    IF name \in {DATABRICKS_FMAPI_BGE_ENDPOINT, ProvisionedBgeEndpoint}
    THEN Some(FMAPI_EMBEDDINGS_TASK)
    ELSE IF name = ChatEndpoint THEN Some("llm/v1/chat")
    ELSE NULL

\* The context window of the model behind an embeddings endpoint: both
\* endpoints of the workspace serve BGE.
ContextWindow(name) == BGE_CONTEXT_WINDOW_LENGTH_TOKENS

\* saveAsTable with mode("append") instead
AppendTable(old, new) == old (+) new

\* saveAsTable with mode("overwrite"): the new rows replace the table
OverwriteTable(old, new) == new

\* The index specification with the silver table as its source
IndexSpecOverSilver(c) ==
    [name |-> gold_chunks_index_name(c.volume_raw_name),
     endpoint_name |-> vector_search_endpoint_name,
     primary_key |-> CHUNK_ID_COLUMN_NAME,
     index_type |-> "DELTA_SYNC",
     embedding_source_column |-> CHUNK_COLUMN_NAME,
     embedding_model_endpoint_name |-> c.embedding_endpoint_name,
     pipeline_type |-> "TRIGGERED",
     source_table |-> silver_parsed_files_table_name(c.volume_raw_name)]

\* The specification create_index is called with
IndexSpec(c) ==
    [name |-> gold_chunks_index_name(c.volume_raw_name),
     endpoint_name |-> vector_search_endpoint_name,
     primary_key |-> CHUNK_ID_COLUMN_NAME,
     index_type |-> "DELTA_SYNC",
     embedding_source_column |-> CHUNK_COLUMN_NAME,
     embedding_model_endpoint_name |-> c.embedding_endpoint_name,
     pipeline_type |-> "TRIGGERED",
     source_table |-> gold_chunks_table_name(c.volume_raw_name)]

DefaultConfig ==
    [volume_raw_name |-> "docs", embedding_endpoint_name |-> DATABRICKS_FMAPI_BGE_ENDPOINT,
     chunk_size_tokens |-> CHUNK_SIZE_TOKENS, chunk_overlap_tokens |-> CHUNK_OVERLAP_TOKENS]

\* What an earlier run over an older volume left behind
StaleFiles  == {FileOld, FileB}
StaleBronze == BronzeRows("docs", StaleFiles)
StaleSilver == ParsedRows(StaleBronze)
StaleGold   == ChunkedRows(Successes(StaleSilver),
                           CHUNK_SIZE_TOKENS, CHUNK_OVERLAP_TOKENS)

Snapshot == [files |-> files, bronze |-> bronze, silver |-> silver, gold |-> gold,
             goldCDF |-> goldCDF, index |-> index]

Terminal == {"done", "failed"}
Resting  == {"idle"} \cup Terminal

\* An effect the run had on the outside: a table write, an ALTER, or a call
\* of the vector search service with the way it ended.
Effect(op, arg, outcome) == [op |-> op, arg |-> arg, outcome |-> outcome]
Ops(l) == [i \in 1..Len(l) |-> l[i].op]

Init ==
    /\ files \in SUBSET FileUniverse
    /\ \E stale \in BOOLEAN :
         /\ bronze = (IF stale THEN StaleBronze ELSE EmptyBag)
         /\ silver = (IF stale THEN StaleSilver ELSE EmptyBag)
         /\ gold = (IF stale THEN StaleGold ELSE EmptyBag)
         /\ goldCDF = stale
    /\ index \in {NULL, Some([spec |-> IndexSpec(DefaultConfig), rows |-> gold])}
    /\ pc = "idle"
    /\ runNo = 0
    /\ edits = 0
    /\ faults = 0
    /\ config = DefaultConfig
    /\ start = Snapshot
    /\ prev = [ran |-> FALSE, files |-> {}, config |-> DefaultConfig, fault |-> FALSE]
    /\ log = <<>>
    /\ warned = <<>>
    /\ error = NoError
    /\ bronze_df = EmptyBag
    /\ df_parsed = EmptyBag
    /\ num_errors = NULL
    /\ udf_in = NotPdf("")
    /\ udf_out = NULL
    /\ split_in = NoSplitCall
    /\ split_out = NULL
    /\ ns = FreshProcess
    /\ registry = 0
    /\ deployments = {}

Raise(kind, msg) ==
    /\ pc' = "failed"
    /\ error' = [kind |-> kind, msg |-> msg]

\* The operator presses Run All.  The first cells restart the Python
\* process, so no notebook variable survives from the run before.
StartRun ==
    /\ pc \in Resting
    /\ runNo < MaxRuns
    /\ \E c \in Configs : config' = c
    /\ runNo' = runNo + 1
    /\ start' = Snapshot
    /\ prev' = [ran |-> runNo > 0, files |-> start.files, config |-> config,
                fault |-> error.kind = "external"]
    /\ log' = <<>>
    /\ warned' = <<>>
    /\ error' = NoError
    /\ bronze_df' = EmptyBag
    /\ df_parsed' = EmptyBag
    /\ num_errors' = NULL
    /\ pc' = "config"
    /\ UNCHANGED <<envVars, edits, faults, udfVars, splitVars, drvVars>>

\* The operator adds a file to the volume, or removes one, after a run.
EditVolume ==
    /\ pc \in Terminal
    /\ edits < MaxEdits
    /\ \E f \in FileUniverse :
         files' = (IF f \in files THEN files \ {f} ELSE files \cup {f})
    /\ edits' = edits + 1
    /\ UNCHANGED <<bronze, silver, gold, goldCDF, index, pc, runNo, faults, config, start,
                   prev, log, warned, error, bronze_df, df_parsed, num_errors, udfVars, splitVars, drvVars>>

ContextWarning == "WARNING: Your chunk configuration exceeds context window"

\* The condition tested whatever endpoint is named
ExceedsAnyContextWindow(c) ==
    c.chunk_size_tokens + c.chunk_overlap_tokens > ContextWindow(c.embedding_endpoint_name)

\* The condition of the if that prints the warning
ExceedsContextWindow(c) ==
    /\ c.embedding_endpoint_name = DATABRICKS_FMAPI_BGE_ENDPOINT
    /\ c.chunk_size_tokens + c.chunk_overlap_tokens > BGE_CONTEXT_WINDOW_LENGTH_TOKENS

\* The configuration cells without the test of the endpoint's task
ConfigureWithoutTaskCheck ==
    /\ pc = "config"
    /\ LET task == ServingEndpointTask(config.embedding_endpoint_name)
           over == ExceedsContextWindow(config)
       IN  IF vector_search_endpoint_name = ""
           THEN Raise("Exception", "Please select a Vector Search endpoint to continue.")
                /\ UNCHANGED warned
           ELSE IF uc_catalog_name = "" \/ uc_schema_name = ""
           THEN Raise("Exception", "Please select a UC Catalog & Schema to continue.")
                /\ UNCHANGED warned
           ELSE IF source_uc_volume(config.volume_raw_name) = ""
           THEN Raise("Exception",
                      "Please select a source UC Volume w/ PDF files to continue.")
                /\ UNCHANGED warned
           ELSE IF IsNull(task)
           THEN Raise("Exception", "Model serving endpoint does not exist.")
                /\ UNCHANGED warned
           ELSE /\ pc' = "bronze_load"
                /\ warned' = (IF over THEN Append(warned, ContextWarning) ELSE warned)
                /\ UNCHANGED error
    /\ UNCHANGED <<envVars, runNo, edits, faults, config, start, prev, log, bronze_df,
                   df_parsed, num_errors, udfVars, splitVars, drvVars>>

\* The two configuration cells.
Configure ==
    /\ pc = "config"
    /\ LET task == ServingEndpointTask(config.embedding_endpoint_name)
           over == ExceedsContextWindow(config)
       IN  IF vector_search_endpoint_name = ""
           THEN Raise("Exception", "Please select a Vector Search endpoint to continue.")
                /\ UNCHANGED warned
           ELSE IF uc_catalog_name = "" \/ uc_schema_name = ""
           THEN Raise("Exception", "Please select a UC Catalog & Schema to continue.")
                /\ UNCHANGED warned
           ELSE IF source_uc_volume(config.volume_raw_name) = ""
           THEN Raise("Exception",
                      "Please select a source UC Volume w/ PDF files to continue.")
                /\ UNCHANGED warned
           ELSE IF IsNull(task)
           THEN Raise("Exception", "Model serving endpoint does not exist.")
                /\ UNCHANGED warned
           ELSE IF Val(task) # FMAPI_EMBEDDINGS_TASK
           THEN Raise("Exception", "Your endpoint is not of type llm/v1/embeddings.")
                /\ UNCHANGED warned
           ELSE /\ pc' = "bronze_load"
                /\ warned' = (IF over
                              THEN Append(warned, ContextWarning)
                              ELSE warned)
                /\ UNCHANGED error
    /\ UNCHANGED <<envVars, runNo, edits, faults, config, start, prev, log, bronze_df,
                   df_parsed, num_errors, udfVars, splitVars, drvVars>>

\* Load the files, overwrite the bronze table, reload it.
BronzeLoad ==
    /\ pc = "bronze_load"
    /\ bronze' = OverwriteTable(bronze, BronzeRows(config.volume_raw_name, files))
    /\ log' = Append(log, Effect("write_bronze",
                                 bronze_raw_files_table_name(config.volume_raw_name), "ok"))
    /\ bronze_df' = bronze'
    /\ pc' = "bronze_count"
    /\ UNCHANGED <<files, silver, gold, goldCDF, index, runNo, edits, faults, config, start,
                   prev, warned, error, df_parsed, num_errors, udfVars, splitVars, drvVars>>

\* The cell without its check of the row count
BronzeCountUnchecked ==
    /\ pc = "bronze_count"
    /\ pc' = "parse"
    /\ UNCHANGED <<envVars, runNo, edits, faults, config, start, prev, log, warned,
                   error, bronze_df, df_parsed, num_errors, udfVars, splitVars, drvVars>>

\* if bronze_df.count() == 0: raise
BronzeCount ==
    /\ pc = "bronze_count"
    /\ IF BagCardinality(bronze_df) = 0
       THEN Raise("Exception", "does not contain any PDF files.")
       ELSE pc' = "parse" /\ UNCHANGED error
    /\ UNCHANGED <<envVars, runNo, edits, faults, config, start, prev, log, warned,
                   bronze_df, df_parsed, num_errors, udfVars, splitVars, drvVars>>

\* The name the notebook uses for the warnings module when it warns
WarnModuleName == "warning"

\* Run the parsing, count the failures, warn about them.
ParseCount ==
    /\ pc = "parse"
    /\ df_parsed' = ParsedRows(bronze_df)
    /\ LET n == BagCardinality(Failures(df_parsed'))
       IN  /\ num_errors' = Some(n)
           /\ IF n > 0
              THEN IF WarnModuleName \in NotebookGlobals
                   THEN /\ warned' = Append(warned, "documents had parse errors")
                        /\ pc' = "silver_write"
                        /\ UNCHANGED error
                   ELSE /\ Raise("NameError", "name 'warning' is not defined")
                        /\ UNCHANGED warned
              ELSE /\ pc' = "silver_write"
                   /\ UNCHANGED <<warned, error>>
    /\ UNCHANGED <<envVars, runNo, edits, faults, config, start, prev, log, bronze_df, udfVars, splitVars, drvVars>>

\* Overwrite the silver table with all rows, reload the successful ones.
SilverWrite ==
    /\ pc = "silver_write"
    /\ silver' = OverwriteTable(silver, df_parsed)
    /\ log' = Append(log, Effect("write_silver",
                                 silver_parsed_files_table_name(config.volume_raw_name), "ok"))
    /\ df_parsed' = Successes(silver')
    /\ pc' = "tokenizer"
    /\ UNCHANGED <<files, bronze, gold, goldCDF, index, runNo, edits, faults, config, start,
                   prev, warned, error, bronze_df, num_errors, udfVars, splitVars, drvVars>>

\* AutoTokenizer.from_pretrained and the test of the tokenizer
LoadTokenizer ==
    /\ pc = "tokenizer"
    /\ pc' = "gold_write"
    /\ UNCHANGED <<envVars, runNo, edits, faults, config, start, prev, log, warned, error,
                   bronze_df, df_parsed, num_errors, udfVars, splitVars, drvVars>>

\* The gold write merging into the table (mode append) instead of replacing it
GoldWriteAppending ==
    /\ pc = "gold_write"
    /\ gold' = gold (+) ChunkedRows(df_parsed, config.chunk_size_tokens,
                                    config.chunk_overlap_tokens)
    /\ log' = Append(log, Effect("write_gold",
                                 gold_chunks_table_name(config.volume_raw_name), "ok"))
    /\ pc' = "cdf"
    /\ UNCHANGED <<files, bronze, silver, goldCDF, index, runNo, edits, faults, config,
                   start, prev, warned, error, bronze_df, df_parsed, num_errors, udfVars, splitVars, drvVars>>

\* Chunk the successful rows and overwrite the gold table.
GoldWrite ==
    /\ pc = "gold_write"
    /\ gold' = OverwriteTable(gold, ChunkedRows(df_parsed, config.chunk_size_tokens,
                                                config.chunk_overlap_tokens))
    /\ log' = Append(log, Effect("write_gold",
                                 gold_chunks_table_name(config.volume_raw_name), "ok"))
    /\ pc' = "cdf"
    /\ UNCHANGED <<files, bronze, silver, goldCDF, index, runNo, edits, faults, config, start,
                   prev, warned, error, bronze_df, df_parsed, num_errors, udfVars, splitVars, drvVars>>

\* ALTER TABLE ... SET TBLPROPERTIES (delta.enableChangeDataFeed = true)
EnableCDF ==
    /\ pc = "cdf"
    /\ goldCDF' = TRUE
    /\ log' = Append(log, Effect("alter_gold",
                                 gold_chunks_table_name(config.volume_raw_name), "ok"))
    /\ pc' = "sync"
    /\ UNCHANGED <<files, bronze, silver, gold, index, runNo, edits, faults, config, start,
                   prev, warned, error, bronze_df, df_parsed, num_errors, udfVars, splitVars, drvVars>>

\* The index step with create_index in a finally branch
SyncIndexThenAlwaysCreate ==
    /\ pc = "sync"
    /\ log' = Append(log, Effect("sync_index",
                                 gold_chunks_index_name(config.volume_raw_name),
                                 IF IsNull(index) THEN "ResourceDoesNotExist" ELSE "ok"))
    /\ pc' = "create"
    /\ UNCHANGED <<envVars, runNo, edits, faults, config, start, prev, warned, error,
                   bronze_df, df_parsed, num_errors, udfVars, splitVars, drvVars>>

\* w.vector_search_indexes.sync_index(index_name=gold_chunks_index_name):
\* a triggered sync mirrors the source table; a missing index raises
\* ResourceDoesNotExist, which the notebook catches.
SyncIndex ==
    /\ pc = "sync"
    /\ IF IsNull(index)
       THEN /\ log' = Append(log, Effect("sync_index",
                                         gold_chunks_index_name(config.volume_raw_name),
                                         "ResourceDoesNotExist"))
            /\ pc' = "create"
            /\ UNCHANGED index
       ELSE /\ log' = Append(log, Effect("sync_index",
                                         gold_chunks_index_name(config.volume_raw_name),
                                         "ok"))
            /\ index' = Some([spec |-> Val(index).spec, rows |-> gold])
            /\ pc' = "status"
    /\ UNCHANGED <<files, bronze, silver, gold, goldCDF, runNo, edits, faults, config, start,
                   prev, warned, error, bronze_df, df_parsed, num_errors, udfVars, splitVars, drvVars>>

\* sync_index raising, with the call made again
SyncIndexFailsAndRetries ==
    /\ pc = "sync"
    /\ log' = Append(log, Effect("sync_index",
                                 gold_chunks_index_name(config.volume_raw_name), "error"))
    /\ faults < MaxFaults
    /\ faults' = faults + 1
    /\ pc' = "sync"
    /\ UNCHANGED <<envVars, runNo, edits, config, start, prev, warned, error, bronze_df,
                   df_parsed, num_errors, udfVars, splitVars, drvVars>>

\* sync_index raises anything but ResourceDoesNotExist: not caught.
SyncIndexFails ==
    /\ pc = "sync"
    /\ log' = Append(log, Effect("sync_index",
                                 gold_chunks_index_name(config.volume_raw_name), "error"))
    /\ faults < MaxFaults
    /\ faults' = faults + 1
    /\ Raise("external", "sync_index")
    /\ UNCHANGED <<envVars, runNo, edits, config, start, prev, warned, bronze_df,
                   df_parsed, num_errors, udfVars, splitVars, drvVars>>

\* The except branch followed by a sync of the index just created
CreateIndexThenSync ==
    /\ pc = "create"
    /\ log' = log \o <<Effect("create_index", IndexSpec(config), "ok"),
                       Effect("sync_index",
                              gold_chunks_index_name(config.volume_raw_name), "ok")>>
    /\ index' = Some([spec |-> IndexSpec(config), rows |-> gold])
    /\ pc' = "status"
    /\ UNCHANGED <<files, bronze, silver, gold, goldCDF, runNo, edits, faults, config,
                   start, prev, warned, error, bronze_df, df_parsed, num_errors, udfVars, splitVars, drvVars>>

\* The except branch: w.vector_search_indexes.create_index(...)
CreateIndex ==
    /\ pc = "create"
    /\ log' = Append(log, Effect("create_index", IndexSpec(config), "ok"))
    /\ index' = Some([spec |-> IndexSpec(config), rows |-> gold])
    /\ pc' = "status"
    /\ UNCHANGED <<files, bronze, silver, gold, goldCDF, runNo, edits, faults, config, start,
                   prev, warned, error, bronze_df, df_parsed, num_errors, udfVars, splitVars, drvVars>>

CreateIndexFails ==
    /\ pc = "create"
    /\ log' = Append(log, Effect("create_index", IndexSpec(config), "error"))
    /\ faults < MaxFaults
    /\ faults' = faults + 1
    /\ Raise("external", "create_index")
    /\ UNCHANGED <<envVars, runNo, edits, config, start, prev, warned, bronze_df,
                   df_parsed, num_errors, udfVars, splitVars, drvVars>>

\* The cells after the index step: get_index, the table URLs, the YAML text.
ViewStatus ==
    /\ pc = "status"
    /\ pc' = "done"
    /\ UNCHANGED <<envVars, runNo, edits, faults, config, start, prev, log, warned, error,
                   bronze_df, df_parsed, num_errors, udfVars, splitVars, drvVars>>

\* Steps whose call of Spark, the workspace or the model hub can raise
ExternalSteps == {"config", "bronze_load", "bronze_count", "parse", "silver_write",
                  "tokenizer", "gold_write", "cdf", "status"}

\* An external call raises; nothing in the notebook catches it.
ExternalFailure ==
    /\ pc \in ExternalSteps
    /\ faults < MaxFaults
    /\ faults' = faults + 1
    /\ Raise("external", pc)
    /\ UNCHANGED <<envVars, runNo, edits, config, start, prev, log, warned,
                   bronze_df, df_parsed, num_errors, udfVars, splitVars, drvVars>>

Next ==
    \/ StartRun
    \/ EditVolume
    \/ Configure
    \/ BronzeLoad
    \/ BronzeCount
    \/ ParseCount
    \/ SilverWrite
    \/ LoadTokenizer
    \/ GoldWrite
    \/ EnableCDF
    \/ SyncIndex
    \/ SyncIndexFails
    \/ CreateIndex
    \/ CreateIndexFails
    \/ ViewStatus
    \/ ExternalFailure

Spec == Init /\ [][Next]_vars

-----------------------------------------------------------------------------
(* One run of the notebook under any setting of its widgets *)

StartRunAny ==
    /\ pc = "idle"
    /\ runNo = 0
    /\ \E c \in AnyConfigs : config' = c
    /\ runNo' = runNo + 1
    /\ start' = Snapshot
    /\ prev' = [ran |-> FALSE, files |-> start.files, config |-> config, fault |-> FALSE]
    /\ log' = <<>>
    /\ warned' = <<>>
    /\ error' = NoError
    /\ bronze_df' = EmptyBag
    /\ df_parsed' = EmptyBag
    /\ num_errors' = NULL
    /\ pc' = "config"
    /\ UNCHANGED <<envVars, edits, faults, udfVars, splitVars, drvVars>>

NextConfig ==
    \/ StartRunAny
    \/ Configure
    \/ BronzeLoad
    \/ BronzeCount
    \/ ParseCount
    \/ SilverWrite
    \/ LoadTokenizer
    \/ GoldWrite
    \/ EnableCDF
    \/ SyncIndex
    \/ SyncIndexFails
    \/ CreateIndex
    \/ CreateIndexFails
    \/ ViewStatus
    \/ ExternalFailure

SpecConfig == Init /\ [][NextConfig]_vars

-----------------------------------------------------------------------------
(* parse_pdf on its own: every input the reader model can describe with up *)
(* to MaxPages pages.                                                      *)

PageOutcomes ==
    {PageOk(<<>>), PageOk(<<"alpha">>), PageOk(<<"alpha", SEP, "beta">>),
     PageBad("cannot extract text")}

RECURSIVE PageSeqs(_)
PageSeqs(n) ==
    IF n = 0 THEN {<<>>}
    ELSE LET shorter == PageSeqs(n - 1)
         IN  shorter \cup {Append(p, o) : p \in shorter, o \in PageOutcomes}

ByteInputs ==
    {NotPdf("EOF marker not found"), NotPdf("Cannot read an empty file")}
      \cup {Pdf(p) : p \in PageSeqs(MaxPages)}

InitUdf ==
    /\ udf_in \in ByteInputs
    /\ udf_out = NULL
    /\ split_in = NoSplitCall
    /\ split_out = NULL
    /\ ns = FreshProcess
    /\ registry = 0
    /\ deployments = {}
    /\ pc = "udf"
    /\ files = {}
    /\ bronze = EmptyBag
    /\ silver = EmptyBag
    /\ gold = EmptyBag
    /\ goldCDF = FALSE
    /\ index = NULL
    /\ runNo = 0
    /\ edits = 0
    /\ faults = 0
    /\ config = DefaultConfig
    /\ start = Snapshot
    /\ prev = [ran |-> FALSE, files |-> {}, config |-> DefaultConfig, fault |-> FALSE]
    /\ log = <<>>
    /\ warned = <<>>
    /\ error = NoError
    /\ bronze_df = EmptyBag
    /\ df_parsed = EmptyBag
    /\ num_errors = NULL

\* Spark applies the UDF to the content of one row.
CallParsePdf ==
    /\ pc = "udf"
    /\ IsNull(udf_out)
    /\ udf_out' = Some(parse_pdf(udf_in))
    /\ pc' = "udf_done"
    /\ UNCHANGED <<envVars, runNo, edits, faults, config, start, prev, log, warned, error,
                   bronze_df, df_parsed, num_errors, udf_in, splitVars, drvVars>>

NextUdf == CallParsePdf

SpecUdf == InitUdf /\ [][NextUdf]_vars

-----------------------------------------------------------------------------
(* split_char_recursive on its own: one call of the UDF on one extracted    *)
(* text, under one setting of the two chunking widgets.                     *)

MaxTextLen == 4

TextSymbols == {"alpha", "beta", SEP}

RECURSIVE SymbolSeqs(_)
SymbolSeqs(n) ==
    IF n = 0 THEN {<<>>}
    ELSE LET shorter == SymbolSeqs(n - 1)
         IN  shorter \cup {Append(t, sym) : t \in shorter, sym \in TextSymbols}

\* What parse_pdf returns as text: nothing for a PDF without pages, else the
\* page texts, each followed by "\n\n".
ExtractedTexts == {<<>>} \cup {Append(t, SEP) : t \in SymbolSeqs(MaxTextLen)}

SplitChunking == {<<CHUNK_SIZE_TOKENS, CHUNK_OVERLAP_TOKENS>>, <<5, 1>>, <<4, 0>>}

SplitInputs ==
    {[content |-> t, chunk_size_tokens |-> k[1], chunk_overlap_tokens |-> k[2]] :
        t \in ExtractedTexts, k \in SplitChunking}

InitSplit ==
    /\ split_in \in SplitInputs
    /\ split_out = NULL
    /\ udf_in = NotPdf("")
    /\ udf_out = NULL
    /\ ns = FreshProcess
    /\ registry = 0
    /\ deployments = {}
    /\ pc = "split"
    /\ files = {}
    /\ bronze = EmptyBag
    /\ silver = EmptyBag
    /\ gold = EmptyBag
    /\ goldCDF = FALSE
    /\ index = NULL
    /\ runNo = 0
    /\ edits = 0
    /\ faults = 0
    /\ config = DefaultConfig
    /\ start = Snapshot
    /\ prev = [ran |-> FALSE, files |-> {}, config |-> DefaultConfig, fault |-> FALSE]
    /\ log = <<>>
    /\ warned = <<>>
    /\ error = NoError
    /\ bronze_df = EmptyBag
    /\ df_parsed = EmptyBag
    /\ num_errors = NULL

\* Spark applies the UDF to the text of one row.
CallSplit ==
    /\ pc = "split"
    /\ IsNull(split_out)
    /\ split_out' = Some(split_char_recursive(split_in.content, split_in.chunk_size_tokens,
                                              split_in.chunk_overlap_tokens))
    /\ pc' = "split_done"
    /\ UNCHANGED <<envVars, runNo, edits, faults, config, start, prev, log, warned, error,
                   bronze_df, df_parsed, num_errors, udfVars, split_in, drvVars>>

NextSplit == CallSplit

SpecSplit == InitSplit /\ [][NextSplit]_vars

-----------------------------------------------------------------------------
(* The driver notebook: log the chain, try it, register it in Unity        *)
(* Catalog, deploy the registered version, list the deployments.           *)

uc_catalog == "users"
uc_schema == "jen_darrouzet"
model_name == "hello_world"
uc_model_fqdn == uc_catalog \o "." \o uc_schema \o "." \o model_name

\* uc_model_fqdn.split('.'): none of the three names holds a dot
FqdnParts == <<uc_catalog, uc_schema, model_name>>

DriverResting == {"drv_idle", "drv_done", "drv_failed"}

\* A Python process in which the cells up to registration were run before
UsedProcess(version) ==
    [logged_chain_info |-> Some(0), uc_registered_chain_info |-> Some(version)]

InitDriver ==
    /\ registry \in {0, 1}
    /\ deployments \in SUBSET (1..registry)
    /\ ns \in {FreshProcess} \cup {UsedProcess(v) : v \in 1..registry}
    /\ pc = "drv_idle"
    /\ split_in = NoSplitCall
    /\ split_out = NULL
    /\ udf_in = NotPdf("")
    /\ udf_out = NULL
    /\ files = {}
    /\ bronze = EmptyBag
    /\ silver = EmptyBag
    /\ gold = EmptyBag
    /\ goldCDF = FALSE
    /\ index = NULL
    /\ runNo = 0
    /\ edits = 0
    /\ faults = 0
    /\ config = DefaultConfig
    /\ start = Snapshot
    /\ prev = [ran |-> FALSE, files |-> {}, config |-> DefaultConfig, fault |-> FALSE]
    /\ log = <<>>
    /\ warned = <<>>
    /\ error = NoError
    /\ bronze_df = EmptyBag
    /\ df_parsed = EmptyBag
    /\ num_errors = NULL

pipelineVars == <<envVars, edits, config, start, prev, bronze_df, df_parsed, num_errors,
                  udfVars, splitVars>>

RaiseInDriver(kind, msg) ==
    /\ pc' = "drv_failed"
    /\ error' = [kind |-> kind, msg |-> msg]

\* The operator presses Run All on the driver notebook.
StartDriverRun ==
    /\ pc \in DriverResting
    /\ runNo < MaxRuns
    /\ runNo' = runNo + 1
    /\ log' = <<>>
    /\ warned' = <<>>
    /\ error' = NoError
    /\ pc' = "drv_install"
    /\ UNCHANGED <<pipelineVars, faults, drvVars>>

\* The installer cell without the restart of Python after it
InstallWheelKeepingProcess ==
    /\ pc = "drv_install"
    /\ log' = Append(log, Effect("wheel_installer", "./wheel_installer", "ok"))
    /\ pc' = "drv_log"
    /\ UNCHANGED <<pipelineVars, runNo, faults, warned, error, drvVars>>

\* %run ./wheel_installer, then dbutils.library.restartPython(): every
\* variable of the notebook is gone.
InstallWheel ==
    /\ pc = "drv_install"
    /\ log' = Append(log, Effect("wheel_installer", "./wheel_installer", "ok"))
    /\ ns' = FreshProcess
    /\ pc' = "drv_log"
    /\ UNCHANGED <<pipelineVars, runNo, faults, warned, error, registry, deployments>>

\* logged_chain_info = rag_studio.log_model(code_path=chain_notebook_path)
LogModel ==
    /\ pc = "drv_log"
    /\ ns' = [ns EXCEPT !.logged_chain_info = Some(runNo)]
    /\ log' = Append(log, Effect("log_model", "1_hello_world_chain", "ok"))
    /\ pc' = "drv_test"
    /\ UNCHANGED <<pipelineVars, runNo, faults, warned, error, registry, deployments>>

\* mlflow.langchain.load_model(logged_chain_info.model_uri); model.invoke(...)
TestModel ==
    /\ pc = "drv_test"
    /\ log' = Append(log, Effect("load_model", Val(ns.logged_chain_info), "ok"))
    /\ pc' = "drv_register"
    /\ UNCHANGED <<pipelineVars, runNo, faults, warned, error, drvVars>>

RegisterMessage == "Failed to register model:"

\* The registration cell: the check of the name, set_registry_uri, and
\* mlflow.register_model inside try; here the call returns the new version.
RegisterModel ==
    /\ pc = "drv_register"
    /\ IF Len(FqdnParts) # 3
       THEN /\ RaiseInDriver("ValueError", "Model FQDN does not have the correct format")
            /\ UNCHANGED <<log, drvVars>>
       ELSE /\ registry' = registry + 1
            /\ ns' = [ns EXCEPT !.uc_registered_chain_info = Some(registry + 1)]
            /\ log' = Append(log, Effect("register_model",
                                         [name |-> uc_model_fqdn, version |-> registry + 1],
                                         "ok"))
            /\ pc' = "drv_deploy"
            /\ UNCHANGED <<error, deployments>>
    /\ UNCHANGED <<pipelineVars, runNo, faults, warned>>

\* mlflow.register_model raises: except Exception prints the message and
\* the cell ends normally, with uc_registered_chain_info not assigned.
RegisterModelFails ==
    /\ pc = "drv_register"
    /\ Len(FqdnParts) = 3
    /\ faults < MaxFaults
    /\ faults' = faults + 1
    /\ log' = Append(log, Effect("register_model",
                                 [name |-> uc_model_fqdn, version |-> 0], "error"))
    /\ warned' = Append(warned, RegisterMessage)
    /\ pc' = "drv_deploy"
    /\ UNCHANGED <<pipelineVars, runNo, error, drvVars>>

\* rag_studio.deploy_model(uc_model_fqdn, uc_registered_chain_info.version):
\* the argument is evaluated first, and is a NameError when the variable
\* was never assigned in this process.
DeployModel ==
    /\ pc = "drv_deploy"
    /\ IF IsNull(ns.uc_registered_chain_info)
       THEN /\ RaiseInDriver("NameError", "uc_registered_chain_info")
            /\ UNCHANGED <<log, deployments>>
       ELSE /\ log' = Append(log, Effect("deploy_model",
                                         [name |-> uc_model_fqdn,
                                          version |-> Val(ns.uc_registered_chain_info)],
                                         "ok"))
            /\ deployments' = deployments \cup {Val(ns.uc_registered_chain_info)}
            /\ pc' = "drv_list"
            /\ UNCHANGED error
    /\ UNCHANGED <<pipelineVars, runNo, faults, warned, ns, registry>>

\* deploy_model raises: nothing catches it.
DeployModelFails ==
    /\ pc = "drv_deploy"
    /\ ~IsNull(ns.uc_registered_chain_info)
    /\ faults < MaxFaults
    /\ faults' = faults + 1
    /\ log' = Append(log, Effect("deploy_model",
                                 [name |-> uc_model_fqdn,
                                  version |-> Val(ns.uc_registered_chain_info)],
                                 "error"))
    /\ RaiseInDriver("external", "deploy_model")
    /\ UNCHANGED <<pipelineVars, runNo, warned, drvVars>>

\* deployments = rag_studio.list_deployments() and the loop that prints
ListDeployments ==
    /\ pc = "drv_list"
    /\ log' = Append(log, Effect("list_deployments", uc_model_fqdn, "ok"))
    /\ pc' = "drv_done"
    /\ UNCHANGED <<pipelineVars, runNo, faults, warned, error, drvVars>>

\* The call each of the other cells makes
DriverCall(at) ==
    CASE at = "drv_install" -> "wheel_installer"
      [] at = "drv_log" -> "log_model"
      [] at = "drv_test" -> "load_model"
      [] OTHER -> "list_deployments"

\* One of those calls raises: nothing catches it.
DriverCallFails ==
    /\ pc \in {"drv_install", "drv_log", "drv_test", "drv_list"}
    /\ faults < MaxFaults
    /\ faults' = faults + 1
    /\ log' = Append(log, Effect(DriverCall(pc), uc_model_fqdn, "error"))
    /\ RaiseInDriver("external", DriverCall(pc))
    /\ UNCHANGED <<pipelineVars, runNo, warned, drvVars>>

NextDriver ==
    \/ StartDriverRun
    \/ InstallWheel
    \/ LogModel
    \/ TestModel
    \/ RegisterModel
    \/ RegisterModelFails
    \/ DeployModel
    \/ DeployModelFails
    \/ ListDeployments
    \/ DriverCallFails

SpecDriver == InitDriver /\ [][NextDriver]_vars

\* Either notebook, run against its own workspace state
InitBoth == Init \/ InitDriver

NextBoth == NextConfig \/ NextDriver

SpecBoth == InitBoth /\ [][NextBoth]_vars

-----------------------------------------------------------------------------
(* Properties *)

HasOp(l, op) == \E i \in 1..Len(l) : l[i].op = op
CountOp(l, op) == Cardinality({i \in 1..Len(l) : l[i].op = op})
IsPrefix(a, b) == Len(a) <= Len(b) /\ \A i \in 1..Len(a) : a[i] = b[i]

\* A run has been started and its outcome is still what the state shows.
RunStarted == runNo > 0 /\ pc # "idle"
\* The files the current run scans
Scanned == {f \in start.files : f.name[2] = "pdf"}
NoPdfMessage == "does not contain any PDF files."

\* C1: in a run whose scan of the volume finds no *.pdf file the notebook
\* never gets past the ingestion cell: the only error that is not an
\* external failure is the ingestion cell's exception, the only effect of
\* the run is the bronze write, and the silver table, the gold table, its
\* change data feed property and the vector index are as at the run's start.
C1_NoPdfStopsAtIngestion ==
    (RunStarted /\ Scanned = {}) =>
        /\ pc \in {"config", "bronze_load", "bronze_count", "failed"}
        /\ (pc = "failed" /\ error.kind # "external"
              => error = [kind |-> "Exception", msg |-> NoPdfMessage])
        /\ \A i \in 1..Len(log) : log[i].op = "write_bronze"
        /\ silver = start.silver
        /\ gold = start.gold
        /\ goldCDF = start.goldCDF
        /\ index = start.index

C1_Witness ==
    /\ RunStarted /\ Scanned = {} /\ start.files # {}
    /\ pc = "failed" /\ error.msg = NoPdfMessage
    /\ HasOp(log, "write_bronze")
    /\ start.silver # EmptyBag /\ silver = start.silver
    /\ ~IsNull(index)

\* C2: once the parse step has counted at least one failed document, the
\* operator has been warned, the run is not ended by the notebook itself,
\* and a finished run has written silver and gold and called sync_index.
C2_ParseFailuresWarnAndContinue ==
    (RunStarted /\ ~IsNull(num_errors) /\ Val(num_errors) > 0) =>
        /\ Len(warned) > 0
        /\ (pc = "failed" => error.kind = "external")
        /\ (pc = "done" => /\ HasOp(log, "write_silver")
                           /\ HasOp(log, "write_gold")
                           /\ HasOp(log, "sync_index"))

\* C3: a run whose sync_index call returned without error has issued
\* exactly one sync_index call, for gold_chunks_index_name, and no
\* create_index call; a run that got past the index step with the index
\* in place at its start is such a run.
C3_ExistingIndexSyncOnly ==
    /\ \A i \in 1..Len(log) :
         (log[i].op = "sync_index" /\ log[i].outcome = "ok") =>
            /\ CountOp(log, "sync_index") = 1
            /\ CountOp(log, "create_index") = 0
            /\ log[i].arg = "jendarra_cat.pragster.gold_" \o config.volume_raw_name
                              \o "_chunked_index"
    /\ (RunStarted /\ pc \in {"status", "done"} /\ ~IsNull(start.index))
          => \E i \in 1..Len(log) : log[i].op = "sync_index" /\ log[i].outcome = "ok"

C3_Witness ==
    /\ pc = "done" /\ ~IsNull(start.index)
    /\ CountOp(log, "sync_index") = 1
    /\ log[Len(log)].op = "sync_index" /\ log[Len(log)].outcome = "ok"

\* C4: when sync_index raised ResourceDoesNotExist, the run is either
\* about to call create_index or has called it exactly once, right after
\* the failed sync, with name gold_chunks_index_name, the configured
\* vector search endpoint, primary key chunk_id, embedding source column
\* chunked_text with the configured embedding endpoint, pipeline type
\* TRIGGERED and, as source table, the table the gold write of this run
\* went to; when sync_index raised anything else the run has failed
\* without a create_index call.
C4_MissingIndexCreatedOnce ==
    \A i \in 1..Len(log) :
       /\ (log[i].op = "sync_index" /\ log[i].outcome = "ResourceDoesNotExist") =>
             \/ pc = "create" /\ CountOp(log, "create_index") = 0
             \/ /\ CountOp(log, "create_index") = 1
                /\ CountOp(log, "sync_index") = 1
                /\ Len(log) = i + 1
                /\ log[i + 1].op = "create_index"
                /\ LET spec == log[i + 1].arg
                   IN  /\ spec.name = log[i].arg
                       /\ spec.name = "jendarra_cat.pragster.gold_"
                                        \o config.volume_raw_name \o "_chunked_index"
                       /\ spec.endpoint_name = "one-env-shared-endpoint-5"
                       /\ spec.primary_key = "chunk_id"
                       /\ spec.embedding_source_column = "chunked_text"
                       /\ spec.embedding_model_endpoint_name = config.embedding_endpoint_name
                       /\ spec.pipeline_type = "TRIGGERED"
                       /\ \E j \in 1..Len(log) :
                            log[j].op = "write_gold" /\ log[j].arg = spec.source_table
       /\ (log[i].op = "sync_index" /\ log[i].outcome = "error") =>
             /\ CountOp(log, "create_index") = 0
             /\ pc = "failed"

C4_Witness ==
    /\ pc = "done" /\ IsNull(start.index) /\ ~IsNull(index)
    /\ CountOp(log, "create_index") = 1
    /\ log[Len(log)].op = "create_index"
    /\ log[Len(log) - 1].outcome = "ResourceDoesNotExist"

\* C5: after the ingestion write of a run the bronze table holds one row,
\* once, for each file of the volume whose name matches *.pdf, at any
\* depth, and nothing else, whatever it held before the run.
C5_BronzeIsExactlyTheMatchingFiles ==
    (RunStarted /\ HasOp(log, "write_bronze")) =>
        /\ BagCardinality(bronze) = Cardinality(Scanned)
        /\ \A f \in Scanned :
             \E r \in BagToSet(bronze) :
                /\ r.doc_uri[2] = f.dir /\ r.doc_uri[3] = f.name
                /\ r.content = f.content
                /\ CopiesIn(r, bronze) = 1
        /\ \A r \in BagToSet(bronze) :
             \E f \in Scanned : r.doc_uri[2] = f.dir /\ r.doc_uri[3] = f.name

C5_Witness ==
    /\ RunStarted /\ HasOp(log, "write_bronze")
    /\ start.bronze = StaleBronze
    /\ start.files = {FileA, FileC, FileN}
    /\ BagCardinality(bronze) = 2

\* The message of the exception PdfReader or extract_text raises first
FirstErrorIn(bytes) ==
    IF ~IsNull(bytes.readerError) THEN bytes.readerError
    ELSE LET bad == {i \in 1..Len(bytes.pages) : ~IsNull(bytes.pages[i].error)}
         IN  IF bad = {} THEN NULL
             ELSE bytes.pages[CHOOSE i \in bad : \A j \in bad : i <= j].error

\* C6: parse_pdf returns a record for every input; its status is SUCCESS
\* exactly when text and number_pages are both non-null; otherwise both
\* are null and the status is "ERROR: " followed by the message of the
\* exception that was caught.
C6_StatusSuccessIffTextAndPages ==
    /\ pc = "udf" => ENABLED CallParsePdf
    /\ pc = "udf_done" =>
         /\ ~IsNull(udf_out)
         /\ LET out == Val(udf_out)
            IN  /\ out.status = "SUCCESS"
                     <=> (~IsNull(out.text) /\ ~IsNull(out.number_pages))
                /\ out.status # "SUCCESS" =>
                     /\ IsNull(out.text) /\ IsNull(out.number_pages)
                     /\ ~IsNull(FirstErrorIn(udf_in))
                     /\ out.status = "ERROR: " \o Val(FirstErrorIn(udf_in))
                /\ out.status = "SUCCESS" => IsNull(FirstErrorIn(udf_in))

C6_Witness ==
    /\ pc = "udf_done"
    /\ Val(udf_out).status = "ERROR: cannot extract text"
    /\ Len(udf_in.pages) = MaxPages
    /\ IsNull(udf_in.pages[1].error)
    /\ IsNull(Val(udf_out).text)

\* C7 as stated: a PDF with zero pages, like an unreadable one, gets a
\* failure status, and every SUCCESS record has at least one page and a
\* non-empty text.
C7_ZeroPagesFail ==
    pc = "udf_done" =>
        LET out == Val(udf_out)
        IN  /\ (~IsNull(FirstErrorIn(udf_in)) \/ Len(udf_in.pages) = 0)
                 => out.status # "SUCCESS"
            /\ out.status = "SUCCESS"
                 => Val(out.number_pages) >= 1 /\ Len(Val(out.text)) > 0

\* C7 amended: an unreadable PDF gets the failure status with the error
\* message in it; a PDF the reader opens and finds no page in gets
\* SUCCESS with page count 0 and the empty text; every SUCCESS record has
\* the page count of the document, at least 0, and a text with at least
\* one symbol for each page, so non-empty as soon as there is a page.
C7_SuccessHasPageCountAndText ==
    pc = "udf_done" =>
        LET out == Val(udf_out)
        IN  /\ ~IsNull(FirstErrorIn(udf_in))
                 => out.status = "ERROR: " \o Val(FirstErrorIn(udf_in))
            /\ (IsNull(FirstErrorIn(udf_in)) /\ Len(udf_in.pages) = 0)
                 => /\ out.status = "SUCCESS"
                    /\ out.number_pages = Some(0)
                    /\ out.text = Some(<<>>)
            /\ out.status = "SUCCESS"
                 => /\ Val(out.number_pages) = Len(udf_in.pages)
                    /\ Len(Val(out.text)) >= Val(out.number_pages)

C7_Witness ==
    /\ pc = "udf_done"
    /\ IsNull(udf_in.readerError) /\ Len(udf_in.pages) = 0
    /\ Val(udf_out).status = "SUCCESS"
    /\ Val(Val(udf_out).number_pages) = 0

\* The run got past the ingestion cell.
PassedIngestion == RunStarted /\ HasOp(log, "write_bronze") /\ BagCardinality(bronze_df) > 0

\* C8: a run that got past ingestion and was not cut short by a failing
\* external call has written the silver table, with one row for each
\* bronze row, the failed ones among them; the rows handed to chunking
\* are the successful ones and no gold row comes from a failed document.
C8_SilverKeepsAllRowsGoldOnlySuccesses ==
    (PassedIngestion /\ pc \in Terminal /\ error.kind # "external") =>
        /\ HasOp(log, "write_silver")
        /\ BagCardinality(silver) = BagCardinality(bronze)
        /\ \A b \in BagToSet(bronze) :
             \E r \in BagToSet(silver) :
                /\ r.doc_uri = b.doc_uri
                /\ (r.parsed_output.status = "SUCCESS") <=> IsNull(FirstErrorIn(b.content))
        /\ \A r \in BagToSet(df_parsed) : r.parsed_output.status = "SUCCESS"
        /\ \A g \in BagToSet(gold) :
             \E r \in BagToSet(silver) :
                r.doc_uri = g.doc_uri /\ r.parsed_output.status = "SUCCESS"

\* The effects of a complete run, in the order of the cells
EffectOrder == <<"write_bronze", "write_silver", "write_gold", "alter_gold",
                 "sync_index", "create_index">>

\* C9: the effects of a run are an initial part of: bronze write, silver
\* write, gold write, enabling the change data feed, sync_index,
\* create_index, each at most once; the silver table written is the parse
\* of the bronze table as persisted, the gold table written is the
\* chunking of the successful rows of the silver table as persisted, and
\* the index, once synced or created, mirrors the gold table as persisted.
C9_EffectsInStageOrder ==
    RunStarted =>
        /\ IsPrefix(Ops(log), EffectOrder)
        /\ HasOp(log, "write_silver") => silver = ParsedRows(bronze)
        /\ HasOp(log, "write_gold") =>
              gold = ChunkedRows(Successes(silver),
                                 config.chunk_size_tokens, config.chunk_overlap_tokens)
        /\ (pc \in {"status", "done"}) => (~IsNull(index) /\ Val(index).rows = gold)

C9_Witness ==
    /\ pc = "done"
    /\ Ops(log) = EffectOrder
    /\ BagCardinality(gold) >= 2

\* Neither this run nor the one before was cut short by a failing
\* external call, and both had the same files and widget values.
SameRunTwice ==
    /\ RunStarted /\ pc \in Terminal /\ prev.ran
    /\ prev.files = start.files /\ prev.config = config
    /\ ~prev.fault /\ error.kind # "external"

\* C10: when the notebook has run twice over the same files with the same
\* widget values, the bronze, silver and gold tables after the second run
\* have the rows, chunk ids included, they had after the first.
C10_SecondRunLeavesTablesAsFirst ==
    SameRunTwice =>
        /\ bronze = start.bronze
        /\ silver = start.silver
        /\ gold = start.gold

C10_Witness ==
    /\ SameRunTwice /\ pc = "done"
    /\ config.chunk_size_tokens = 5
    /\ BagCardinality(gold) >= 3
    /\ \E g \in BagToSet(gold) : CopiesIn(g, gold) = 1

RECURSIVE SumOver(_, _)
SumOver(f, S) ==
    IF S = {} THEN 0
    ELSE LET x == CHOOSE y \in S : TRUE IN f[x] + SumOver(f, S \ {x})

\* The number of chunks the splitter makes of each successful silver row
ChunkCounts ==
    [r \in {x \in BagToSet(silver) : x.parsed_output.status = "SUCCESS"} |->
        CopiesIn(r, silver)
          * Len(split_char_recursive(Val(r.parsed_output.text),
                                     config.chunk_size_tokens, config.chunk_overlap_tokens))]

\* C11: in the gold table two rows with the same chunked_text have the
\* same chunk_id, whatever documents they come from; after the gold write
\* the table has one row for every chunk of every successful document,
\* none merged away; and the index created over it has chunk_id as its
\* primary key and this table as its source.
C11_ChunkIdFromTextAloneNoDedup ==
    /\ \A g1, g2 \in BagToSet(gold) :
          g1.chunked_text = g2.chunked_text => g1.chunk_id = g2.chunk_id
    /\ (RunStarted /\ HasOp(log, "write_gold")) =>
          BagCardinality(gold) = SumOver(ChunkCounts, DOMAIN ChunkCounts)
    /\ \A i \in 1..Len(log) :
          log[i].op = "create_index" =>
             /\ log[i].arg.primary_key = "chunk_id"
             /\ log[i].arg.source_table
                  = "jendarra_cat.pragster.gold_" \o config.volume_raw_name \o "_chunked"

\* Two gold rows of different documents share a chunk_id, and the index
\* has been created over that table.
C11_Witness ==
    /\ pc = "done" /\ HasOp(log, "create_index")
    /\ \E g1, g2 \in BagToSet(gold) :
          /\ g1.doc_uri # g2.doc_uri
          /\ g1.chunked_text = g2.chunked_text
          /\ g1.chunk_id = g2.chunk_id


\* C12: every chunk split_char_recursive returns has a token length, as the
\* tokenizer measures it, of at most chunk_size_tokens.
C12_ChunksWithinTokenLimit ==
    pc = "split_done" =>
        \A i \in 1..Len(Val(split_out)) :
            TokenLen(Val(split_out)[i]) <= split_in.chunk_size_tokens

\* The chunking widgets ask for more than the embedding model behind the
\* configured endpoint can take in.
OverWindow ==
    /\ ~IsNull(ServingEndpointTask(config.embedding_endpoint_name))
    /\ Val(ServingEndpointTask(config.embedding_endpoint_name)) = FMAPI_EMBEDDINGS_TASK
    /\ config.chunk_size_tokens + config.chunk_overlap_tokens
         > ContextWindow(config.embedding_endpoint_name)

\* The configuration cells of the current run have been run to their end,
\* or to the exception they raise themselves.
ConfigurationRan ==
    RunStarted /\ pc # "config" /\ ~(error.kind = "external" /\ error.msg = "config")

HasContextWarning == \E i \in 1..Len(warned) : warned[i] = ContextWarning

\* The run got as far as the ingestion cell.
ReachedIngestion ==
    \/ pc \notin {"config", "failed"}
    \/ HasOp(log, "write_bronze")
    \/ error.kind = "external" /\ error.msg = "bronze_load"

\* C13 as stated: whatever the embedding endpoint, a chunk size and overlap
\* that exceed the model's context window make the configuration step warn,
\* and the run goes on.
C13_WarnsForEveryEndpoint ==
    (ConfigurationRan /\ OverWindow) => (HasContextWarning /\ ReachedIngestion)

\* C13: the warning is printed exactly when the endpoint is the default
\* databricks-bge-large-en and chunk size plus overlap exceed 512; for any
\* other endpoint nothing is printed, however large the sum.  In neither
\* case does the configuration step raise because of the chunking values.
C13_WarnsOnlyForDefaultEndpoint ==
    ConfigurationRan =>
        /\ HasContextWarning <=>
              /\ config.embedding_endpoint_name = DATABRICKS_FMAPI_BGE_ENDPOINT
              /\ config.chunk_size_tokens + config.chunk_overlap_tokens
                   > BGE_CONTEXT_WINDOW_LENGTH_TOKENS
        /\ OverWindow => ReachedIngestion

C13_Witness ==
    /\ pc = "done"
    /\ config.embedding_endpoint_name = ProvisionedBgeEndpoint
    /\ config.chunk_size_tokens + config.chunk_overlap_tokens
         > ContextWindow(config.embedding_endpoint_name)
    /\ ~HasContextWarning
    /\ HasOp(log, "write_bronze")

\* The embedding endpoint the run is configured with does not exist, or
\* serves another task than llm/v1/embeddings.
BadEmbeddingEndpoint ==
    LET task == ServingEndpointTask(config.embedding_endpoint_name)
    IN  IsNull(task) \/ Val(task) # FMAPI_EMBEDDINGS_TASK

EndpointMessages ==
    {"Please select a Vector Search endpoint to continue.",
     "Model serving endpoint does not exist.",
     "Your endpoint is not of type llm/v1/embeddings."}

\* C14: a run whose vector search endpoint name is empty, or whose embedding
\* endpoint is missing or of another task, never leaves the configuration
\* cells: they end it with an exception that says which of the three it is,
\* and the run writes no table and calls no index operation.
C14_BadEndpointAbortsInConfiguration ==
    (RunStarted /\ (vector_search_endpoint_name = "" \/ BadEmbeddingEndpoint)) =>
        /\ pc \in {"config", "failed"}
        /\ log = <<>>
        /\ <<bronze, silver, gold, goldCDF, index>>
             = <<start.bronze, start.silver, start.gold, start.goldCDF, start.index>>
        /\ ConfigurationRan =>
              /\ pc = "failed"
              /\ error.kind = "Exception"
              /\ error.msg \in EndpointMessages
              /\ (IsNull(ServingEndpointTask(config.embedding_endpoint_name))
                    <=> error.msg = "Model serving endpoint does not exist.")

C14_Witness ==
    /\ pc = "failed"
    /\ config.embedding_endpoint_name = ChatEndpoint
    /\ error = [kind |-> "Exception", msg |-> "Your endpoint is not of type llm/v1/embeddings."]
    /\ start.bronze # EmptyBag
    /\ bronze = start.bronze

VolumeMessage == "Please select a source UC Volume w/ PDF files to continue."

\* C16: a run started with the source_uc_volume widget left empty is
\* stopped by the configuration cells with the message asking for a volume:
\* it never gets to the scan of the files, so nothing is read from, or
\* written for, a path whose volume component is empty.
C16_EmptyVolumeHaltsInConfiguration ==
    (RunStarted /\ config.volume_raw_name = "") =>
        /\ pc \in {"config", "failed"}
        /\ ~HasOp(log, "write_bronze")
        /\ (pc = "failed" /\ error.kind = "Exception" /\ ~BadEmbeddingEndpoint)
              => error.msg = VolumeMessage

RegistrationFailed ==
    \E j \in 1..Len(log) : log[j].op = "register_model" /\ log[j].outcome = "error"

\* C17: every deploy_model call of a run of the driver notebook comes after
\* a register_model call of the same run that succeeded, and names the
\* version that call returned.  A run whose registration failed has printed
\* the failure and calls deploy_model not at all: it ends in the deploy cell
\* with a NameError for uc_registered_chain_info.
C17_DeployOnlyWhatThisRunRegistered ==
    /\ \A i \in 1..Len(log) :
          log[i].op = "deploy_model" =>
             \E j \in 1..(i - 1) :
                /\ log[j].op = "register_model"
                /\ log[j].outcome = "ok"
                /\ log[j].arg.version = log[i].arg.version
    /\ RegistrationFailed =>
          /\ ~HasOp(log, "deploy_model")
          /\ \E k \in 1..Len(warned) : warned[k] = RegisterMessage
          /\ pc \in {"drv_deploy", "drv_failed"}
          /\ pc = "drv_failed" =>
                error = [kind |-> "NameError", msg |-> "uc_registered_chain_info"]

C17_Witness ==
    /\ runNo = 2
    /\ deployments # {}
    /\ registry \in deployments
    /\ RegistrationFailed
    /\ pc = "drv_failed"
    /\ error.kind = "NameError"

\* A call of the outside that did not return normally
Failed(e) == e.outcome # "ok"

AllFailed == {"failed", "drv_failed"}

\* C15 as stated: in either notebook a failed external call is the last
\* thing its run does, and no call is made twice in a run.
C15_AnyFailureAbortsRun ==
    /\ \A i \in 1..Len(log) : Failed(log[i]) => (i = Len(log) /\ pc \in AllFailed)
    /\ error.kind = "external" => pc \in AllFailed
    /\ \A i, j \in 1..Len(log) : log[i].op = log[j].op => i = j

\* C15: no call is made twice in a run, and a failed external call ends the
\* run, with two exceptions the code makes itself.  sync_index raising
\* ResourceDoesNotExist is caught and followed by create_index, and by
\* nothing else.  register_model raising is caught and printed; the run goes
\* on to the deploy cell, which ends it with a NameError before it makes
\* any further call.
C15_FailureAbortsUnlessCaught ==
    /\ \A i \in 1..Len(log) :
          Failed(log[i]) =>
             \/ /\ i = Len(log)
                /\ pc \in AllFailed
                /\ error.kind = "external"
             \/ /\ log[i].op = "sync_index"
                /\ log[i].outcome = "ResourceDoesNotExist"
                /\ IF i = Len(log) THEN pc = "create"
                   ELSE Len(log) = i + 1 /\ log[i + 1].op = "create_index"
             \/ /\ log[i].op = "register_model"
                /\ i = Len(log)
                /\ pc \in {"drv_deploy", "drv_failed"}
                /\ pc = "drv_failed" => error.kind = "NameError"
    /\ error.kind = "external" => pc \in AllFailed
    /\ \A i, j \in 1..Len(log) : log[i].op = log[j].op => i = j

C15_Witness ==
    /\ pc = "failed"
    /\ error = [kind |-> "external", msg |-> "create_index"]
    /\ Len(log) >= 2
    /\ log[Len(log) - 1].op = "sync_index"
    /\ log[Len(log) - 1].outcome = "ResourceDoesNotExist"
    /\ log[Len(log)].op = "create_index"
    /\ log[Len(log)].outcome = "error"

====
